---- MODULE Spec2Model ----
(***************************************************************************)
(* Technical-Trader: the MACD indicator pipeline of src/utils/helper.py    *)
(* (calculate_macd, calculate_normalized_macd, calculate_percentile_macd,  *)
(* find_crossovers, create_fig) and the submit handler of src/app.py.      *)
(*                                                                         *)
(* Numbers.  The code computes in IEEE doubles; the model computes the     *)
(* same expressions exactly.  A cell of a numeric column is a record       *)
(*   [k |-> "nan"]                       NaN                               *)
(*   [k |-> "num", n, d]                 the rational n/d (d > 0, reduced) *)
(*   [k |-> "z",   n, d, q]              n * sqrt(d / q), a z-score: q is  *)
(*                                       a natural number in limbs         *)
(*   [k |-> "pct", n, d, q]              norm.cdf(n*sqrt(d/q))*200 - 100   *)
(* so that the square root of the sample variance and the normal CDF are   *)
(* kept symbolic and every comparison the code makes is decided exactly.   *)
(***************************************************************************)
EXTENDS Integers, Sequences, FiniteSets, TLC

VARIABLES
    pc,      \* position of the running script / harness
    data,    \* the DataFrame the functions mutate in place
    input,   \* the frame as it was handed over (before any derived column)
    policy,  \* which computation last wrote MACD / Signal_Line
    last,    \* the last helper call: its name, arguments and outcome
    ui,      \* sidebar widgets of app.py
    calls,   \* helper functions invoked by the current submission, in order
    shown    \* messages written to the page by the current submission

vars == <<pc, data, input, policy, last, ui, calls, shown>>

(***************************************************************************)
(* Bounds of the model.                                                    *)
(***************************************************************************)
MaxLen == 3       \* rows of a downloaded price series
MaxWindow == 3    \* largest EMA span tried
MaxGiven == 2     \* rows of a caller-supplied MACD / Signal_Line frame

Prices == {10, 20}
Thresholds == {-100, 0, 100}

(***************************************************************************)
(* Exact arithmetic.                                                       *)
(***************************************************************************)
NaN == [k |-> "nan", n |-> 0, d |-> 0, q |-> <<>>]

Abs(a) == IF a < 0 THEN -a ELSE a

Sign(a) == IF a < 0 THEN -1 ELSE IF a > 0 THEN 1 ELSE 0

RECURSIVE GCD(_, _)
GCD(a, b) == IF b = 0 THEN a ELSE GCD(b, a % b)

Rat(n, d) ==
    LET g == GCD(Abs(n), d)
    IN  [k |-> "num", n |-> n \div g, d |-> d \div g, q |-> <<>>]

Num(i) == Rat(i, 1)

IsNaN(x) == x.k = "nan"

Add(x, y) ==
    IF IsNaN(x) \/ IsNaN(y) THEN NaN
    ELSE LET l == (x.d \div GCD(x.d, y.d)) * y.d
         IN  Rat(x.n * (l \div x.d) + y.n * (l \div y.d), l)

Sub(x, y) ==
    IF IsNaN(x) \/ IsNaN(y) THEN NaN
    ELSE LET l == (x.d \div GCD(x.d, y.d)) * y.d
         IN  Rat(x.n * (l \div x.d) - y.n * (l \div y.d), l)

Mul(x, y) ==
    IF IsNaN(x) \/ IsNaN(y) THEN NaN
    ELSE LET g1 == GCD(Abs(x.n), y.d)
             g2 == GCD(Abs(y.n), x.d)
         IN  IF x.n = 0 \/ y.n = 0 THEN Num(0)
             ELSE Rat((x.n \div g1) * (y.n \div g2), (x.d \div g2) * (y.d \div g1))

\* n/d < m/e for rationals: integer parts first, then the fractional parts
\* over the least common denominator.
RatLess(x, y) ==
    LET fx == x.n \div x.d
        fy == y.n \div y.d
        l == (x.d \div GCD(x.d, y.d)) * y.d
    IN  IF fx # fy THEN fx < fy
        ELSE (x.n % x.d) * (l \div x.d) < (y.n % y.d) * (l \div y.d)

\* Natural numbers of any size: limbs in base 10^4, least significant first,
\* no leading zero limb (<<>> is 0).
Base == 100 * 100

RECURSIVE BigOf(_)
BigOf(i) == IF i = 0 THEN <<>> ELSE <<i % Base>> \o BigOf(i \div Base)

RECURSIVE Carry(_, _)
Carry(s, c) ==
    IF s = <<>> THEN BigOf(c)
    ELSE <<(s[1] + c) % Base>> \o Carry(Tail(s), (s[1] + c) \div Base)

RECURSIVE Trim(_)
Trim(s) ==
    IF s = <<>> THEN s
    ELSE IF s[Len(s)] = 0 THEN Trim(SubSeq(s, 1, Len(s) - 1)) ELSE s

Limb(a, i) == IF i >= 1 /\ i <= Len(a) THEN a[i] ELSE 0

BigAdd(a, b) ==
    LET m == IF Len(a) > Len(b) THEN Len(a) ELSE Len(b)
    IN  Carry([i \in 1..m |-> Limb(a, i) + Limb(b, i)], 0)

RECURSIVE Conv(_, _, _, _)
Conv(a, b, k, i) ==
    IF i > Len(a) THEN 0 ELSE a[i] * Limb(b, k - i + 1) + Conv(a, b, k, i + 1)

BigMul(a, b) ==
    IF a = <<>> \/ b = <<>> THEN <<>>
    ELSE Trim(Carry([k \in 1..(Len(a) + Len(b) - 1) |-> Conv(a, b, k, 1)], 0))

RECURSIVE BigLessFrom(_, _, _)
BigLessFrom(a, b, i) ==
    IF i = 0 THEN FALSE
    ELSE IF a[i] # b[i] THEN a[i] < b[i] ELSE BigLessFrom(a, b, i - 1)

BigLess(a, b) ==
    IF Len(a) # Len(b) THEN Len(a) < Len(b) ELSE BigLessFrom(a, b, Len(a))

\* A "num" or "z" cell as a sign and a squared magnitude SqNum / SqDen.
SqNum(x) ==
    LET a == BigOf(Abs(x.n))
    IN  IF x.k = "num" THEN BigMul(a, a) ELSE BigMul(BigMul(a, a), BigOf(x.d))

SqDen(x) == IF x.k = "num" THEN BigMul(BigOf(x.d), BigOf(x.d)) ELSE x.q

MagLess(x, y) == BigLess(BigMul(SqNum(x), SqDen(y)), BigMul(SqNum(y), SqDen(x)))

SignedLess(x, y) ==
    LET sx == Sign(x.n)
        sy == Sign(y.n)
    IN  IF sx # sy THEN sx < sy
        ELSE IF sx = 0 THEN FALSE
        ELSE IF sx > 0 THEN MagLess(x, y) ELSE MagLess(y, x)

\* cdf(z)*200 - 100 lies strictly between -100 and 100 and has the sign of z:
\* that settles its comparison with a threshold of 0 or at an end of the
\* slider's range, the thresholds the model draws (Thresholds).
PctLessNum(p, t) ==
    CASE t.n >= 100 * t.d -> TRUE
      [] t.n <= (-100) * t.d -> FALSE
      [] t.n = 0 -> p.n < 0

NumLessPct(t, p) ==
    CASE t.n >= 100 * t.d -> FALSE
      [] t.n <= (-100) * t.d -> TRUE
      [] t.n = 0 -> p.n > 0

\* x < y as the code's float comparison: False as soon as either side is NaN.
Lt(x, y) ==
    IF IsNaN(x) \/ IsNaN(y) THEN FALSE
    ELSE IF x.k = "num" /\ y.k = "num" THEN RatLess(x, y)
    ELSE IF x.k = "pct" /\ y.k = "num" THEN PctLessNum(x, y)
    ELSE IF x.k = "num" /\ y.k = "pct" THEN NumLessPct(x, y)
    ELSE SignedLess(x, y)

Gt(x, y) == Lt(y, x)

(***************************************************************************)
(* The DataFrame: a row index, the column labels in order, and one value   *)
(* sequence per column.                                                    *)
(***************************************************************************)
PriceColumns == <<"Open", "High", "Low", "Close", "Volume">>

NRows(df) == Len(df.index)

HasColumn(df, c) == c \in DOMAIN df.col

\* Faulty variant: df.insert(0, c, v), the derived column put in front of the others.
SetColumnFirst(df, c, v) ==
    [index |-> df.index,
     columns |-> IF HasColumn(df, c) THEN df.columns ELSE <<c>> \o df.columns,
     col |-> [x \in DOMAIN df.col \cup {c} |-> IF x = c THEN v ELSE df.col[x]]]

\* df[c] = v: overwrite the column in place, or append a new one at the end.
SetColumn(df, c, v) ==
    [index |-> df.index,
     columns |-> IF HasColumn(df, c) THEN df.columns ELSE Append(df.columns, c),
     col |-> [x \in DOMAIN df.col \cup {c} |-> IF x = c THEN v ELSE df.col[x]]]

\* What yf.download hands back for a Close series: dates strictly increasing.
PriceFrame(close) ==
    [index |-> [i \in 1..Len(close) |-> i],
     columns |-> PriceColumns,
     col |-> [x \in {"Open", "High", "Low", "Close", "Volume"} |->
                 IF x = "Volume" THEN [i \in 1..Len(close) |-> Num(1000)]
                 ELSE [i \in 1..Len(close) |-> Num(close[i])]]]

\* The part of a frame the caller owns: the index and the price columns.
PricePart(df) ==
    [index |-> df.index,
     col |-> [x \in {"Open", "High", "Low", "Close", "Volume"} |-> df.col[x]]]

(***************************************************************************)
(* Series.ewm(span=span, adjust=False).mean()                              *)
(***************************************************************************)
\* Faulty variant: the recursion seeded with 0 instead of the first value.
RECURSIVE EwmAtFromZero(_, _, _)
EwmAtFromZero(vals, span, i) ==
    LET alpha == Rat(2, span + 1)
        old_wt == Sub(Num(1), alpha)
    IN  IF i = 0 THEN Num(0)
        ELSE Add(Mul(old_wt, EwmAtFromZero(vals, span, i - 1)), Mul(alpha, vals[i]))

\* The first value is the first observation; afterwards
\* weighted = (1 - alpha) * weighted + alpha * cur, alpha = 2 / (span + 1),
\* which pandas skips while the value does not change (a constant series
\* stays exactly constant).
RECURSIVE EwmAt(_, _, _)
EwmAt(vals, span, i) ==
    LET alpha == Rat(2, span + 1)
        old_wt == Sub(Num(1), alpha)
        weighted == EwmAt(vals, span, i - 1)
    IN  IF i = 1 THEN vals[1]
        ELSE IF weighted = vals[i] THEN weighted
        ELSE Add(Mul(old_wt, weighted), Mul(alpha, vals[i]))

\* Faulty variant: the output seeded with a first row before the length is looked at.
EwmMeanSeeded(vals, span) ==
    [i \in 1..(IF Len(vals) = 0 THEN 1 ELSE Len(vals)) |->
        IF Len(vals) = 0 THEN NaN ELSE EwmAt(vals, span, i)]

EwmMean(vals, span) == [i \in 1..Len(vals) |-> EwmAt(vals, span, i)]

\* pandas refuses a span below 1 when the ewm object is built.
SpanOk(span) == span >= 1

\* Lines 31-41, repeated verbatim at 74-84 and 121-131: the two EMAs of
\* Close, their difference written to MACD, its EMA written to Signal_Line.
RawIndicators(df, short_window, long_window, signal_window) ==
    IF ~SpanOk(short_window) \/ ~SpanOk(long_window)
    THEN [raised |-> "ValueError", data |-> df]
    ELSE LET short_ema == EwmMean(df.col["Close"], short_window)
             long_ema == EwmMean(df.col["Close"], long_window)
             macd == [i \in 1..NRows(df) |-> Sub(short_ema[i], long_ema[i])]
             df1 == SetColumn(df, "MACD", macd)
         IN  IF ~SpanOk(signal_window)
             THEN [raised |-> "ValueError", data |-> df1]
             ELSE [raised |-> "none",
                   data |-> SetColumn(df1, "Signal_Line", EwmMean(macd, signal_window))]

calculate_macd(df, short_window, long_window, signal_window) ==
    RawIndicators(df, short_window, long_window, signal_window)

(***************************************************************************)
(* (s - s.mean()) / s.std(): with c the common denominator of the column,  *)
(* x[i] = m[i]/c and n rows, x[i] - mean = a[i]/(n*c) for                  *)
(* a[i] = n*m[i] - sum(m), and std = sqrt(sum(a^2)/(n-1)) / (n*c), so the  *)
(* quotient is a[i] * sqrt((n-1) / sum(a^2)).  std() of a single row is    *)
(* NaN, and a zero std divides 0 by 0: NaN in every row.                   *)
(***************************************************************************)
RECURSIVE LcmDen(_, _)
LcmDen(s, i) ==
    IF i = 0 THEN 1
    ELSE LET l == LcmDen(s, i - 1) IN (l \div GCD(l, s[i].d)) * s[i].d

RECURSIVE SumInt(_, _)
SumInt(s, i) == IF i = 0 THEN 0 ELSE s[i] + SumInt(s, i - 1)

RECURSIVE GcdAll(_, _)
GcdAll(s, i) == IF i = 0 THEN 0 ELSE GCD(Abs(s[i]), GcdAll(s, i - 1))

RECURSIVE SumSquares(_, _)
SumSquares(s, i) ==
    IF i = 0 THEN <<>>
    ELSE BigAdd(BigMul(BigOf(Abs(s[i])), BigOf(Abs(s[i]))), SumSquares(s, i - 1))

ZScore(s) ==
    LET n == Len(s)
        c == LcmDen(s, n)
        m == [i \in 1..n |-> s[i].n * (c \div s[i].d)]
        total == SumInt(m, n)
        a == [i \in 1..n |-> n * m[i] - total]
        g == GcdAll(a, n)
        b == [i \in 1..n |-> a[i] \div g]
    IN  IF n < 2 \/ g = 0 THEN [i \in 1..n |-> NaN]
        ELSE [i \in 1..n |->
                 [k |-> "z", n |-> b[i], d |-> n - 1, q |-> SumSquares(b, n)]]

\* norm.cdf(z) * 200 - 100, NaN staying NaN.
Percentile(s) ==
    [i \in 1..Len(s) |-> IF IsNaN(s[i]) THEN NaN ELSE [s[i] EXCEPT !.k = "pct"]]

calculate_normalized_macd(df, short_window, long_window, signal_window) ==
    LET r == RawIndicators(df, short_window, long_window, signal_window)
        df1 == SetColumn(r.data, "MACD", ZScore(r.data.col["MACD"]))
        df2 == SetColumn(df1, "Signal_Line", ZScore(df1.col["Signal_Line"]))
    IN  IF r.raised # "none" THEN r ELSE [raised |-> "none", data |-> df2]

calculate_percentile_macd(df, short_window, long_window, signal_window) ==
    LET r == RawIndicators(df, short_window, long_window, signal_window)
        df1 == SetColumn(r.data, "MACD", ZScore(r.data.col["MACD"]))
        df2 == SetColumn(df1, "Signal_Line", ZScore(df1.col["Signal_Line"]))
        df3 == SetColumn(df2, "MACD", Percentile(df2.col["MACD"]))
        df4 == SetColumn(df3, "Signal_Line", Percentile(df3.col["Signal_Line"]))
    IN  IF r.raised # "none" THEN r ELSE [raised |-> "none", data |-> df4]

(***************************************************************************)
(* find_crossovers                                                         *)
(***************************************************************************)
\* Faulty variant: numpy.roll, the last value wrapped around into the first row.
ShiftRoll(s) == [i \in 1..Len(s) |-> IF i = 1 THEN s[Len(s)] ELSE s[i - 1]]

\* Series.shift(): every value one row down, NaN in the first row.
Shift(s) == [i \in 1..Len(s) |-> IF i = 1 THEN NaN ELSE s[i - 1]]

\* Faulty variant: the threshold gate put on the MACD value.
BullishMaskGateOnMacd(df, bullish_threshold) ==
    [i \in 1..NRows(df) |->
        /\ Gt(df.col["MACD"][i], df.col["Signal_Line"][i])
        /\ Lt(Shift(df.col["MACD"])[i], Shift(df.col["Signal_Line"])[i])
        /\ Lt(df.col["MACD"][i], bullish_threshold)]

\* Faulty variant: the previous row compared with <=.
BullishMaskNonStrict(df, bullish_threshold) ==
    [i \in 1..NRows(df) |->
        /\ Gt(df.col["MACD"][i], df.col["Signal_Line"][i])
        /\ ~IsNaN(Shift(df.col["MACD"])[i])
        /\ ~IsNaN(Shift(df.col["Signal_Line"])[i])
        /\ ~Gt(Shift(df.col["MACD"])[i], Shift(df.col["Signal_Line"])[i])
        /\ Lt(df.col["Signal_Line"][i], bullish_threshold)]

BullishMask(df, bullish_threshold) ==
    [i \in 1..NRows(df) |->
        /\ Gt(df.col["MACD"][i], df.col["Signal_Line"][i])
        /\ Lt(Shift(df.col["MACD"])[i], Shift(df.col["Signal_Line"])[i])
        /\ Lt(df.col["Signal_Line"][i], bullish_threshold)]

\* Faulty variant: the bullish comparisons pasted and only the threshold line edited.
BearishMaskPasted(df, bearish_threshold) ==
    [i \in 1..NRows(df) |->
        /\ Gt(df.col["MACD"][i], df.col["Signal_Line"][i])
        /\ Lt(Shift(df.col["MACD"])[i], Shift(df.col["Signal_Line"])[i])
        /\ Gt(df.col["Signal_Line"][i], bearish_threshold)]

BearishMask(df, bearish_threshold) ==
    [i \in 1..NRows(df) |->
        /\ Lt(df.col["MACD"][i], df.col["Signal_Line"][i])
        /\ Gt(Shift(df.col["MACD"])[i], Shift(df.col["Signal_Line"])[i])
        /\ Gt(df.col["Signal_Line"][i], bearish_threshold)]

\* df.loc[mask, "Crossover"] = v
MarkRows(df, mask, v) ==
    SetColumn(df, "Crossover",
              [i \in 1..NRows(df) |-> IF mask[i] THEN v ELSE df.col["Crossover"][i]])

find_crossovers(df, bullish_threshold, bearish_threshold) ==
    LET df0 == SetColumn(df, "Crossover", [i \in 1..NRows(df) |-> 0])
    IN  IF ~HasColumn(df0, "MACD") \/ ~HasColumn(df0, "Signal_Line")
        THEN [raised |-> "KeyError", data |-> df0]
        ELSE LET df1 == MarkRows(df0, BullishMask(df0, bullish_threshold), 1)
                 df2 == MarkRows(df1, BearishMask(df1, bearish_threshold), -1)
             IN  [raised |-> "none", data |-> df2]

(***************************************************************************)
(* create_fig: the four rolling means of Close, then the traces.           *)
(***************************************************************************)
RECURSIVE SumCells(_, _, _)
SumCells(s, lo, hi) == IF lo > hi THEN Num(0) ELSE Add(s[hi], SumCells(s, lo, hi - 1))

\* Series.rolling(window=w).mean(): NaN until w rows are available.
RollingMean(s, w) ==
    [i \in 1..Len(s) |->
        IF i < w THEN NaN ELSE Mul(SumCells(s, i - w + 1, i), Rat(1, w))]

MovingAverages == <<12, 26, 50, 200>>

MAName(w) ==
    CASE w = 12 -> "MA12" [] w = 26 -> "MA26" [] w = 50 -> "MA50" [] w = 200 -> "MA200"

RECURSIVE AddMovingAverages(_, _)
AddMovingAverages(df, j) ==
    IF j = 0 THEN df
    ELSE LET w == MovingAverages[j]
         IN  SetColumn(AddMovingAverages(df, j - 1), MAName(w),
                       RollingMean(df.col["Close"], w))

create_fig(df, ticker) ==
    LET df1 == AddMovingAverages(df, Len(MovingAverages))
    IN  IF \E c \in {"MACD", "Signal_Line", "Crossover"} : ~HasColumn(df1, c)
        THEN [raised |-> "KeyError", data |-> df1, fig |-> <<>>]
        ELSE [raised |-> "none", data |-> df1,
              fig |-> <<ticker,
                        {i \in 1..NRows(df1) : df1.col["Crossover"][i] = 1},
                        {i \in 1..NRows(df1) : df1.col["Crossover"][i] = -1}>>]

(***************************************************************************)
(* Inputs.                                                                 *)
(***************************************************************************)
CloseSeries(n) == UNION {[1..k -> Prices] : k \in 0..n}

PriceFrames == {PriceFrame(c) : c \in CloseSeries(MaxLen)}

\* A frame a caller hands to find_crossovers with its own indicator columns.
GivenCells == {NaN, Num(-1), Num(0), Num(1)}

GivenFrame(macd, signal) ==
    SetColumn(SetColumn(PriceFrame([i \in 1..Len(macd) |-> 10]), "MACD", macd),
              "Signal_Line", signal)

GivenFrames ==
    UNION {{GivenFrame(m, s) : m \in [1..k -> GivenCells], s \in [1..k -> GivenCells]} :
           k \in 0..MaxGiven}

AllWindows == (0..MaxWindow) \X (0..MaxWindow) \X (0..MaxWindow)

AllThresholds == Thresholds \X Thresholds

\* The fixture of the concrete scenario.
ScenarioClose == <<10, 10, 10, 20, 20, 20, 10, 10, 10, 10>>

ScenarioWindows == <<2, 4, 2>>

ScenarioThresholds == {-100, -10, -1, 0, 1, 10, 100}

NoCall == [op |-> "none", args |-> <<>>, raised |-> "none"]

NoUi == [ticker |-> "AAPL", short_window |-> 12, long_window |-> 50,
         signal_window |-> 9, values |-> <<-10, 10>>, option |-> "Original"]

(***************************************************************************)
(* The helper functions called directly (any caller of utils.helper): one  *)
(* computation, then detection, then rendering, each of which may be left  *)
(* out.                                                                    *)
(***************************************************************************)
Computed(fn, pol, w, r) ==
    /\ data' = r.data
    /\ last' = [op |-> fn, args |-> w, raised |-> r.raised]
    /\ policy' = IF r.raised = "none" THEN pol ELSE policy
    /\ pc' = "computed"
    /\ UNCHANGED <<input, ui, calls, shown>>

CallCalculateMacd(W) ==
    /\ pc = "fresh"
    /\ \E w \in W :
          Computed("calculate_macd", "Raw", w, calculate_macd(data, w[1], w[2], w[3]))

CallCalculateNormalizedMacd(W) ==
    /\ pc = "fresh"
    /\ \E w \in W :
          Computed("calculate_normalized_macd", "Standardized", w,
                   calculate_normalized_macd(data, w[1], w[2], w[3]))

CallCalculatePercentileMacd(W) ==
    /\ pc = "fresh"
    /\ \E w \in W :
          Computed("calculate_percentile_macd", "PercentileRescaled", w,
                   calculate_percentile_macd(data, w[1], w[2], w[3]))

CallFindCrossovers(T) ==
    /\ pc \in {"fresh", "computed"}
    /\ \E t \in T :
          LET r == find_crossovers(data, Num(t[1]), Num(t[2]))
          IN  /\ data' = r.data
              /\ last' = [op |-> "find_crossovers", args |-> t, raised |-> r.raised]
    /\ pc' = "detected"
    /\ UNCHANGED <<input, policy, ui, calls, shown>>

CallCreateFig ==
    /\ pc \in {"fresh", "computed", "detected"}
    /\ LET r == create_fig(data, ui.ticker)
       IN  /\ data' = r.data
           /\ last' = [op |-> "create_fig", args |-> <<ui.ticker>>, raised |-> r.raised]
    /\ pc' = "rendered"
    /\ UNCHANGED <<input, policy, ui, calls, shown>>

\* A frame that already carries indicator columns is past the computation.
InitFrom(frames) ==
    /\ data \in frames
    /\ pc = IF HasColumn(data, "MACD") THEN "computed" ELSE "fresh"
    /\ input = PricePart(data)
    /\ policy = IF HasColumn(data, "MACD") THEN "Given" ELSE "None"
    /\ last = NoCall
    /\ ui = NoUi
    /\ calls = <<>>
    /\ shown = <<>>

InitCore == InitFrom(PriceFrames \cup GivenFrames)

NextCore ==
    \/ CallCalculateMacd(AllWindows)
    \/ CallCalculateNormalizedMacd(AllWindows)
    \/ CallCalculatePercentileMacd(AllWindows)
    \/ CallFindCrossovers(AllThresholds)
    \/ CallCreateFig

SpecCore == InitCore /\ [][NextCore]_vars

InitScenario == InitFrom({PriceFrame(ScenarioClose)})

NextScenario ==
    \/ CallCalculateMacd({ScenarioWindows})
    \/ CallFindCrossovers(ScenarioThresholds \X ScenarioThresholds)
    \/ CallCreateFig

SpecScenario == InitScenario /\ [][NextScenario]_vars

(***************************************************************************)
(* app.py: one run of the script per submission.                           *)
(***************************************************************************)
MinWindow == 2

Options == {"Original", "Normalization", "Percentile"}

NoFrame == PriceFrame(<<>>)

Explanation(option) ==
    CASE option = "Original" -> "We use the stock price"
      [] option = "Normalization" -> "We use the stock price, then normalize"
      [] OTHER -> "We use the stock price, normalize, then create probabilities"

\* The sidebar holds the widget values; the button starts the run, which
\* first writes the explanation of the selected rescaling.
Submit ==
    /\ pc = "idle"
    /\ \E sw \in MinWindow..MaxWindow, lw \in MinWindow..MaxWindow,
          sg \in MinWindow..MaxWindow, lo \in Thresholds, hi \in Thresholds,
          o \in Options :
          /\ lo <= hi
          /\ ui' = [ticker |-> "AAPL", short_window |-> sw, long_window |-> lw,
                    signal_window |-> sg, values |-> <<lo, hi>>, option |-> o]
          /\ shown' = <<Explanation(o)>>
    /\ pc' = "download"
    /\ calls' = <<>>
    /\ UNCHANGED <<data, input, policy, last>>

Download ==
    /\ pc = "download"
    /\ data' \in PriceFrames
    /\ input' = PricePart(data')
    /\ policy' = "None"
    /\ calls' = Append(calls, "yf.download")
    /\ pc' = "fetched"
    /\ UNCHANGED <<last, ui, shown>>

Ran(fn, pol, r) ==
    /\ data' = r.data
    /\ last' = [op |-> fn,
                args |-> <<ui.short_window, ui.long_window, ui.signal_window>>,
                raised |-> r.raised]
    /\ policy' = pol
    /\ calls' = Append(calls, fn)
    /\ pc' = IF r.raised = "none" THEN "detect" ELSE "crashed"
    /\ UNCHANGED <<input, ui, shown>>

\* Faulty variant: the indicator function called without looking at data.empty.
ComputeUnguarded ==
    /\ pc = "fetched"
    /\ IF ui.option = "Normalization"
       THEN Ran("calculate_normalized_macd", "Standardized",
                calculate_normalized_macd(data, ui.short_window, ui.long_window,
                                          ui.signal_window))
       ELSE IF ui.option = "Percentile"
       THEN Ran("calculate_percentile_macd", "PercentileRescaled",
                calculate_percentile_macd(data, ui.short_window, ui.long_window,
                                          ui.signal_window))
       ELSE Ran("calculate_macd", "Raw",
                calculate_macd(data, ui.short_window, ui.long_window,
                               ui.signal_window))

\* if not data.empty: the indicator function selected by the option.
Compute ==
    /\ pc = "fetched"
    /\ NRows(data) > 0
    /\ IF ui.option = "Normalization"
       THEN Ran("calculate_normalized_macd", "Standardized",
                calculate_normalized_macd(data, ui.short_window, ui.long_window,
                                          ui.signal_window))
       ELSE IF ui.option = "Percentile"
       THEN Ran("calculate_percentile_macd", "PercentileRescaled",
                calculate_percentile_macd(data, ui.short_window, ui.long_window,
                                          ui.signal_window))
       ELSE Ran("calculate_macd", "Raw",
                calculate_macd(data, ui.short_window, ui.long_window,
                               ui.signal_window))

Detect ==
    /\ pc = "detect"
    /\ LET r == find_crossovers(data, Num(ui.values[1]), Num(ui.values[2]))
       IN  /\ data' = r.data
           /\ last' = [op |-> "find_crossovers", args |-> ui.values, raised |-> r.raised]
           /\ pc' = IF r.raised = "none" THEN "plot" ELSE "crashed"
    /\ calls' = Append(calls, "find_crossovers")
    /\ UNCHANGED <<input, policy, ui, shown>>

Plot ==
    /\ pc = "plot"
    /\ LET r == create_fig(data, ui.ticker)
       IN  /\ data' = r.data
           /\ last' = [op |-> "create_fig", args |-> <<ui.ticker>>, raised |-> r.raised]
           /\ pc' = IF r.raised = "none" THEN "fundamentals" ELSE "crashed"
           /\ shown' = IF r.raised = "none"
                       THEN shown \o <<"plotly_chart", "In the above graph, we use">>
                       ELSE shown
    /\ calls' = Append(calls, "create_fig")
    /\ UNCHANGED <<input, policy, ui>>

\* else: st.write("No data available for the given ticker.")
NoData ==
    /\ pc = "fetched"
    /\ NRows(data) = 0
    /\ shown' = Append(shown, "No data available for the given ticker.")
    /\ pc' = "fundamentals"
    /\ UNCHANGED <<data, input, policy, last, ui, calls>>

\* The expander: the three statements, shown when there is any row.
Fundamentals ==
    /\ pc = "fundamentals"
    /\ \E empty \in BOOLEAN :
          shown' = Append(shown, IF empty
                                 THEN "No fundamentals data available for the given ticker."
                                 ELSE "pygwalker")
    /\ calls' = Append(calls, "get_fundamentals")
    /\ last' = [op |-> "get_fundamentals", args |-> <<ui.ticker>>, raised |-> "none"]
    /\ pc' = "done"
    /\ UNCHANGED <<data, input, policy, ui>>

\* The script has run to its end; the next interaction starts a new run.
Rerun ==
    /\ pc = "done"
    /\ pc' = "idle"
    /\ data' = NoFrame
    /\ input' = PricePart(NoFrame)
    /\ policy' = "None"
    /\ last' = NoCall
    /\ calls' = <<>>
    /\ shown' = <<>>
    /\ UNCHANGED ui

Init ==
    /\ pc = "idle"
    /\ data = NoFrame
    /\ input = PricePart(NoFrame)
    /\ policy = "None"
    /\ last = NoCall
    /\ ui = NoUi
    /\ calls = <<>>
    /\ shown = <<>>

Next ==
    \/ Submit
    \/ Download
    \/ Compute
    \/ Detect
    \/ Plot
    \/ NoData
    \/ Fundamentals
    \/ Rerun

Spec == Init /\ [][Next]_vars

(***************************************************************************)
(* The claims.  Row i of the text (counted from 0) is index i + 1 here.    *)
(***************************************************************************)
Found == last.op = "find_crossovers" /\ last.raised = "none"

IndicatorCalls ==
    {"calculate_macd", "calculate_normalized_macd", "calculate_percentile_macd"}

MACD == data.col["MACD"]

Signal_Line == data.col["Signal_Line"]

Crossover == data.col["Crossover"]

JumpRow == CHOOSE i \in 1..NRows(data) :
              /\ data.col["Close"][i] = Num(20)
              /\ \A j \in 1..(i - 1) : data.col["Close"][j] # Num(20)

FirstAboveRow == CHOOSE i \in JumpRow..NRows(data) :
                    /\ Gt(MACD[i], Signal_Line[i])
                    /\ \A j \in JumpRow..(i - 1) : ~Gt(MACD[j], Signal_Line[j])

\* The first row where MACD exceeds Signal_Line after being strictly below it.
FirstCrossRow == CHOOSE i \in 2..NRows(data) :
                    /\ Gt(MACD[i], Signal_Line[i]) /\ Lt(MACD[i - 1], Signal_Line[i - 1])
                    /\ \A j \in 2..(i - 1) :
                          ~(Gt(MACD[j], Signal_Line[j]) /\ Lt(MACD[j - 1], Signal_Line[j - 1]))

ScenarioFound == Found /\ policy = "Raw"

\* C2 as stated: in the scenario (Close 10,10,10,20,20,20,10,10,10,10, windows
\* 2/4/2, Raw) the row where MACD first exceeds Signal_Line after the jump to
\* 20 is Bullish under a bullish threshold of 100 and None under -100.
C2_AsStated ==
    ScenarioFound =>
        /\ last.args[1] = 100 => Crossover[FirstAboveRow] = 1
        /\ last.args[1] = -100 => Crossover[FirstAboveRow] = 0

\* C2 amended: that row (row 3) is None under both thresholds, because MACD
\* and Signal_Line are equal at row 2 and the previous-row comparison is
\* strict; the first row where MACD exceeds Signal_Line after being strictly
\* below it (row 9) is Bullish under 100 and None under -100.
C2_ScenarioRows ==
    ScenarioFound =>
        /\ FirstAboveRow = 4
        /\ MACD[FirstAboveRow - 1] = Signal_Line[FirstAboveRow - 1]
        /\ Crossover[FirstAboveRow] = 0
        /\ FirstCrossRow = 10
        /\ last.args[1] = 100 => Crossover[FirstCrossRow] = 1
        /\ last.args[1] = -100 => Crossover[FirstCrossRow] = 0

C2_Witness ==
    /\ ScenarioFound
    /\ last.args[1] = 100
    /\ Gt(MACD[4], Signal_Line[4])
    /\ Lt(Signal_Line[4], Num(100))
    /\ Crossover[4] = 0
    /\ Crossover[10] = 1

\* C3 as stated: an EMA window below 2 passed to the indicator computation is
\* rejected before any MACD or Signal_Line value is written; no indicator
\* column is produced by that call.
C3_AsStated ==
    (last.op \in IndicatorCalls /\ \E j \in 1..3 : last.args[j] < MinWindow) =>
        /\ last.raised # "none"
        /\ ~HasColumn(data, "MACD")
        /\ ~HasColumn(data, "Signal_Line")

\* A column of at least two equal values: its sample standard deviation is 0.
ZeroStd(s) == Len(s) >= 2 /\ \A i \in 1..Len(s) : s[i] = s[1]

RawOfLast == RawIndicators(data, last.args[1], last.args[2], last.args[3])

\* C4 as stated: under the Standardized or PercentileRescaled policy a MACD or
\* Signal_Line series of zero sample standard deviation ends the computation
\* in a DegenerateSeriesError; it never returns NaN values.
C4_AsStated ==
    (/\ last.op \in {"calculate_normalized_macd", "calculate_percentile_macd"}
     /\ RawOfLast.raised = "none"
     /\ \/ ZeroStd(RawOfLast.data.col["MACD"])
        \/ ZeroStd(RawOfLast.data.col["Signal_Line"])) =>
        /\ last.raised = "DegenerateSeriesError"
        /\ \A i \in 1..NRows(data) : ~IsNaN(MACD[i]) /\ ~IsNaN(Signal_Line[i])

\* C5: after find_crossovers every row carries exactly one value of -1, 0, +1,
\* and the bullish and the bearish selection never both hold for a row, so
\* the later bearish assignment never overwrites a row marked bullish.
C5_MutuallyExclusive ==
    Found =>
        \A i \in 1..NRows(data) :
            /\ Crossover[i] \in {-1, 0, 1}
            /\ ~(BullishMask(data, Num(last.args[1]))[i]
                    /\ BearishMask(data, Num(last.args[2]))[i])
            /\ BullishMask(data, Num(last.args[1]))[i] => Crossover[i] = 1

\* A frame with a Bullish row and the bearish gate open on that row.
C5_Witness ==
    /\ Found
    /\ \E i \in 1..NRows(data) :
          /\ Crossover[i] = 1
          /\ Gt(Signal_Line[i], Num(last.args[2]))

\* C6: for every non-empty series, every policy and every threshold pair,
\* row 0 is None: the shifted values are undefined there and an undefined
\* value satisfies neither strict inequality.
C6_FirstRowNone ==
    (Found /\ NRows(data) >= 1) => Crossover[1] = 0

\* Row 0 with MACD above the signal line and the bullish gate open.
C6_Witness ==
    /\ Found
    /\ NRows(data) >= 1
    /\ Gt(MACD[1], Signal_Line[1])
    /\ Lt(Signal_Line[1], Num(last.args[1]))
    /\ Crossover[1] = 0

\* C7: on a series of zero rows the indicator computation, under each of the
\* three policies, and find_crossovers complete without an error and leave
\* MACD, Signal_Line and Crossover columns of zero rows.
C7_TotalOnEmpty ==
    /\ (/\ last.op \in IndicatorCalls
        /\ NRows(input) = 0
        /\ \A j \in 1..3 : SpanOk(last.args[j])) =>
           /\ last.raised = "none"
           /\ NRows(data) = 0
           /\ MACD = <<>>
           /\ Signal_Line = <<>>
    /\ (/\ last.op = "find_crossovers"
        /\ NRows(input) = 0
        /\ HasColumn(data, "MACD")
        /\ HasColumn(data, "Signal_Line")) =>
           /\ last.raised = "none"
           /\ NRows(data) = 0
           /\ Crossover = <<>>

C7_Witness ==
    /\ Found
    /\ NRows(input) = 0
    /\ policy = "PercentileRescaled"
    /\ MACD = <<>>
    /\ Crossover = <<>>

\* C8: the indicator computation, find_crossovers and create_fig only add or
\* overwrite derived columns: the rows and the Open/High/Low/Close/Volume
\* values stay as handed over, and no price column is removed or reordered.
C8_PriceColumnsKept ==
    /\ PricePart(data) = input
    /\ Len(data.columns) >= Len(PriceColumns)
    /\ SubSeq(data.columns, 1, Len(PriceColumns)) = PriceColumns
    /\ \A c \in DOMAIN data.col : Len(data.col[c]) = NRows(input)

C8_Witness ==
    /\ pc = "rendered"
    /\ last.raised = "none"
    /\ NRows(data) = MaxLen
    /\ policy = "Standardized"
    /\ data.columns = PriceColumns \o
          <<"MACD", "Signal_Line", "Crossover", "MA12", "MA26", "MA50", "MA200">>

IndicatorFor(option) ==
    CASE option = "Normalization" -> "calculate_normalized_macd"
      [] option = "Percentile" -> "calculate_percentile_macd"
      [] OTHER -> "calculate_macd"

Shown(m) == \E i \in 1..Len(shown) : shown[i] = m

\* C9: a submission whose price fetch is empty ends without raising, with no
\* indicator function, find_crossovers or create_fig invoked, the "No data
\* available" message shown and the fundamentals fetched afterwards; on a
\* non-empty series exactly the indicator function of the selected policy
\* runs, then find_crossovers, then create_fig, once each.
C9_SubmissionOrder ==
    /\ pc # "crashed"
    /\ pc = "done" =>
         IF NRows(data) = 0
         THEN /\ calls = <<"yf.download", "get_fundamentals">>
              /\ Shown("No data available for the given ticker.")
              /\ ~Shown("plotly_chart")
         ELSE /\ calls = <<"yf.download", IndicatorFor(ui.option), "find_crossovers",
                           "create_fig", "get_fundamentals">>
              /\ Shown("plotly_chart")
              /\ ~Shown("No data available for the given ticker.")

C9_Witness ==
    /\ pc = "done"
    /\ NRows(data) = 0
    /\ Shown("No data available for the given ticker.")
    /\ calls[Len(calls)] = "get_fundamentals"

\* C10: under the Raw policy both EMAs start at the first Close, so
\* macd[0] = 0 and signal[0] = 0; the previous-row comparison being strict,
\* row 1 as well as row 0 is None whatever the thresholds, even when macd[1]
\* differs from signal[1].
C10_RawStartsAtZero ==
    /\ (policy = "Raw" /\ NRows(data) >= 1) =>
           MACD[1] = Num(0) /\ Signal_Line[1] = Num(0)
    /\ (Found /\ policy = "Raw" /\ NRows(data) >= 2) =>
           Crossover[1] = 0 /\ Crossover[2] = 0

C10_Witness ==
    /\ Found
    /\ policy = "Raw"
    /\ NRows(data) >= 2
    /\ Gt(MACD[2], Signal_Line[2])
    /\ Lt(Signal_Line[2], Num(last.args[1]))
    /\ Crossover[2] = 0

====
